---- MODULE Spec2Model ----
(***************************************************************************)
(* Cropify: the App component (file loading, crop list, crop counter,      *)
(* selection and mode) and the CanvasEditor component (viewport, pointer   *)
(* handlers, crop extraction).  Real numbers are exact rationals <<n, d>>. *)
(***************************************************************************)
EXTENDS Integers, Sequences, FiniteSets, TLC

\* ------------------------------------------------------------------ bounds
MaxViewOps == 1      \* zoom calls performed
MaxPanMoves == 1     \* pointer-moves that panned the view
MaxVertices == 3     \* vertices a drafted polygon may hold
MaxCrops == 2        \* crop numbers handed out per session
MaxInFlight == 1     \* file reads and image decodes under way when a file is chosen

\* ------------------------------------------------------- exact rationals
RECURSIVE GCD(_, _)
GCD(a, b) == IF b = 0 THEN a ELSE GCD(b, a % b)

AbsI(a) == IF a < 0 THEN -a ELSE a

Norm(n, d) ==
  LET g == GCD(AbsI(n), AbsI(d))
      s == IF d < 0 THEN -1 ELSE 1
  IN  <<(s * n) \div g, (s * d) \div g>>

R(i) == <<i, 1>>
\* sums and comparisons go over the least common denominator
RAdd(a, b) ==
  LET g == GCD(a[2], b[2])
  IN  Norm(a[1] * (b[2] \div g) + b[1] * (a[2] \div g), (a[2] \div g) * b[2])
RNeg(a) == <<-a[1], a[2]>>
RSub(a, b) == RAdd(a, RNeg(b))
RMul(a, b) ==
  LET g1 == GCD(AbsI(a[1]), b[2])
      g2 == GCD(AbsI(b[1]), a[2])
  IN  Norm((a[1] \div g1) * (b[1] \div g2), (a[2] \div g2) * (b[2] \div g1))
RDiv(a, b) == RMul(a, Norm(b[2], b[1]))
RLt(a, b) ==
  LET g == GCD(a[2], b[2]) IN a[1] * (b[2] \div g) < b[1] * (a[2] \div g)
RLe(a, b) ==
  LET g == GCD(a[2], b[2]) IN a[1] * (b[2] \div g) <= b[1] * (a[2] \div g)
RMin(a, b) == IF RLe(a, b) THEN a ELSE b
RMax(a, b) == IF RLe(a, b) THEN b ELSE a
RAbs(a) == <<AbsI(a[1]), a[2]>>
\* p/q < r/s for naturals p, r and positive q, s, by continued fractions (no products)
RECURSIVE FracLt(_, _, _, _)
FracLt(p, q, r, s) ==
  IF p \div q # r \div s THEN p \div q < r \div s
  ELSE IF r % s = 0 THEN FALSE
  ELSE IF p % q = 0 THEN TRUE
  ELSE FracLt(s, r % s, q, p % q)
\* sqrt(dx^2 + dy^2) < r for r > 0: over the common denominator D, with
\* a = |dx| D, b = |dy| D, c = r D, it is a^2 < (c - b)(c + b)
HypotLt(dx, dy, r) ==
  LET g == GCD(dx[2], dy[2])
      l == (dx[2] \div g) * dy[2]
      D == (l \div GCD(l, r[2])) * r[2]
      a == AbsI(dx[1]) * (D \div dx[2])
      b == AbsI(dy[1]) * (D \div dy[2])
      c == r[1] * (D \div r[2])
  IN  IF a >= c \/ b >= c THEN FALSE
      ELSE IF a = 0 THEN TRUE
      ELSE FracLt(a, c - b, c + b, a)
\* conversion of a non-negative number to an unsigned long: the fraction is dropped
Trunc(a) == a[1] \div a[2]

\* ------------------------------------------------------------ environment
\* the files the user can pick (e.target.files[0]); a name is its dot-separated parts
Files == {"small.png", "big.tar.png", "shot.png"}
NameParts(f) ==
  CASE f = "small.png" -> <<"small", "png">>
    [] f = "big.tar.png" -> <<"big", "tar", "png">>
    [] f = "shot.png" -> <<"shot", "png">>
\* intrinsic pixel size of the decoded image (img.width, img.height)
ImageWidth(f) == IF f = "small.png" THEN 2 ELSE 400
ImageHeight(f) == IF f = "small.png" THEN 2 ELSE 300
\* container.clientWidth / clientHeight, also the canvas' bounding rectangle
ContainerWidth == 20
ContainerHeight == 20
\* pointer positions relative to the canvas (e.clientX - rect.left, e.clientY - rect.top)
ScreenPoints == { [x |-> 0, y |-> 0], [x |-> 19, y |-> 0],
                  [x |-> 19, y |-> 19], [x |-> 3, y |-> 4] }
ButtonsHeld == {0, 1, 4}    \* e.buttons: none, primary only, middle only

\* file.name.split('.').slice(0, -1).join('.'), kept as the list of joined parts
BaseName(f) == SubSeq(NameParts(f), 1, Len(NameParts(f)) - 1)

\* ------------------------------------------------------------------ state
VARIABLES
  imageFile,      \* App: the chosen File, or "none"
  imageSrc,       \* App: data URL of the file last read, or "none"
  crops,          \* App: the crop list, newest first
  selectionMode,  \* App: "rectangle" | "polygon"
  selection,      \* App: the Selection value
  cropCounter,    \* App: next crop number
  reads,          \* FileReaders whose onload has not fired yet
  thumbs,         \* App.handleCrop calls suspended at await createThumbnail
  decodes,        \* CanvasEditor: Images whose onload has not fired yet
  image,          \* CanvasEditor: the decoded image, or "none"
  zoom,           \* CanvasEditor
  pan,            \* CanvasEditor
  isPanning,      \* CanvasEditor
  startPanPoint,  \* CanvasEditor
  viewOps         \* zoom calls and pan moves performed so far

vars == <<imageFile, imageSrc, crops, selectionMode, selection, cropCounter,
          reads, thumbs, decodes, image, zoom, pan, isPanning, startPanPoint,
          viewOps>>

appVars == <<imageFile, imageSrc, crops, selectionMode, selection, cropCounter,
             reads, thumbs>>
viewVars == <<zoom, pan, isPanning, startPanPoint, viewOps>>

\* Selection = Point[] | Rectangle | null
None == [kind |-> "none"]
Rect(x, y, w, h) == [kind |-> "rect", x |-> x, y |-> y, width |-> w, height |-> h]
Poly(pts) == [kind |-> "poly", pts |-> pts]
IsArray(s) == s.kind = "poly"

Init ==
  /\ imageFile = "none"
  /\ imageSrc = "none"
  /\ crops = <<>>
  /\ selectionMode = "rectangle"
  /\ selection = None
  /\ cropCounter = 1
  /\ reads = {}
  /\ thumbs = <<>>
  /\ decodes = {}
  /\ image = "none"
  /\ zoom = R(1)
  /\ pan = [x |-> R(0), y |-> R(0)]
  /\ isPanning = FALSE
  /\ startPanPoint = [x |-> R(0), y |-> R(0)]
  /\ viewOps = [zooms |-> 0, moves |-> 0]

\* --------------------------------------------------------------- viewport
\* variant: the fit zoom is cut to a whole number
FitZoomWhole(img) ==
  R(Trunc(RMul(RMin(RDiv(R(ContainerWidth), R(ImageWidth(img))),
                    RDiv(R(ContainerHeight), R(ImageHeight(img)))), <<19, 20>>)))

\* resetView: zoom = min(cw / w, ch / h) * 0.95, pan centres the scaled image
FitZoom(img) ==
  RMul(RMin(RDiv(R(ContainerWidth), R(ImageWidth(img))),
            RDiv(R(ContainerHeight), R(ImageHeight(img)))), <<19, 20>>)
FitPan(img) ==
  [x |-> RDiv(RSub(R(ContainerWidth), RMul(R(ImageWidth(img)), FitZoom(img))), R(2)),
   y |-> RDiv(RSub(R(ContainerHeight), RMul(R(ImageHeight(img)), FitZoom(img))), R(2))]

\* variant: the pan is not subtracted
getMousePosNoPan(p) ==
  [x |-> RDiv(R(p.x), zoom), y |-> RDiv(R(p.y), zoom)]

\* getMousePos: (client - rect.left - pan) / zoom
getMousePos(p) ==
  [x |-> RDiv(RSub(R(p.x), pan.x), zoom),
   y |-> RDiv(RSub(R(p.y), pan.y), zoom)]

\* variant: the product is stored as it is
NewZoomUnclamped(scaleAmount) == RMul(zoom, scaleAmount)

\* the render effect: ctx.translate(pan.x, pan.y); ctx.scale(zoom, zoom)
toScreenSpace(q) ==
  [x |-> RAdd(RMul(q.x, zoom), pan.x), y |-> RAdd(RMul(q.y, zoom), pan.y)]

\* adjustZoom: the clamped zoom and the pan that keeps the centre point fixed
NewZoom(scaleAmount) == RMax(<<1, 10>>, RMin(RMul(zoom, scaleAmount), R(10)))
\* variant: the pan is computed for the product zoom * scaleAmount, not for the clamped zoom
NewPanUnclamped(scaleAmount) ==
  LET centerX == RDiv(R(ContainerWidth), R(2))
      centerY == RDiv(R(ContainerHeight), R(2))
      mousePointX == RDiv(RSub(centerX, pan.x), zoom)
      mousePointY == RDiv(RSub(centerY, pan.y), zoom)
  IN  [x |-> RSub(centerX, RMul(mousePointX, RMul(zoom, scaleAmount))),
       y |-> RSub(centerY, RMul(mousePointY, RMul(zoom, scaleAmount)))]

NewPan(scaleAmount) ==
  LET centerX == RDiv(R(ContainerWidth), R(2))
      centerY == RDiv(R(ContainerHeight), R(2))
      mousePointX == RDiv(RSub(centerX, pan.x), zoom)
      mousePointY == RDiv(RSub(centerY, pan.y), zoom)
  IN  [x |-> RSub(centerX, RMul(mousePointX, NewZoom(scaleAmount))),
       y |-> RSub(centerY, RMul(mousePointY, NewZoom(scaleAmount)))]

adjustZoom(scaleAmount) ==
  /\ imageSrc # "none"              \* the canvas is rendered only with an imageSrc
  /\ viewOps.zooms < MaxViewOps
  /\ zoom' = NewZoom(scaleAmount)
  /\ pan' = NewPan(scaleAmount)
  /\ viewOps' = [viewOps EXCEPT !.zooms = @ + 1]
  /\ UNCHANGED <<isPanning, startPanPoint, image, decodes>>
  /\ UNCHANGED appVars

ZoomIn == adjustZoom(<<6, 5>>)
ZoomOut == adjustZoom(<<5, 6>>)
\* handleWheel: deltaY > 0 zooms out by 1/1.1, otherwise in by 1.1
Wheel(deltaY) == adjustZoom(IF deltaY > 0 THEN <<10, 11>> ELSE <<11, 10>>)

ResetView ==
  /\ imageSrc # "none"
  /\ image # "none"
  /\ zoom' = FitZoom(image)
  /\ pan' = FitPan(image)
  /\ UNCHANGED <<isPanning, startPanPoint, image, decodes, viewOps>>
  /\ UNCHANGED appVars

\* ------------------------------------------------------------ file loading
\* handleFileChange, with the confirm dialog answered yes
ChooseFile(f) ==
  /\ imageFile' = f
  /\ reads' = reads \cup {f}
  /\ UNCHANGED <<imageSrc, crops, selectionMode, selection, cropCounter, thumbs>>
  /\ UNCHANGED <<decodes, image>>
  /\ UNCHANGED viewVars

\* reader.onload, followed by the editor's [imageSrc] effect, which starts a
\* decode when the data URL differs from the one already shown
ReadDone(f) ==
  /\ f \in reads
  /\ reads' = reads \ {f}
  /\ imageSrc' = f
  /\ crops' = <<>>
  /\ selection' = None
  /\ cropCounter' = 1
  /\ decodes' = IF imageSrc # f THEN decodes \cup {f} ELSE decodes
  /\ UNCHANGED <<imageFile, selectionMode, thumbs, image>>
  /\ UNCHANGED viewVars

\* img.onload: setImage(img), then the [image] effect runs resetView(image)
DecodeDone(f) ==
  /\ f \in decodes
  /\ decodes' = decodes \ {f}
  /\ image' = f
  /\ zoom' = FitZoom(f)
  /\ pan' = FitPan(f)
  /\ UNCHANGED <<isPanning, startPanPoint, viewOps>>
  /\ UNCHANGED appVars

\* --------------------------------------------------------- crop extraction
RECURSIVE SeqMin(_), SeqMax(_)
SeqMin(s) == IF Len(s) = 1 THEN s[1] ELSE RMin(s[1], SeqMin(Tail(s)))
SeqMax(s) == IF Len(s) = 1 THEN s[1] ELSE RMax(s[1], SeqMax(Tail(s)))
Xs(pts) == [i \in 1..Len(pts) |-> pts[i].x]
Ys(pts) == [i \in 1..Len(pts) |-> pts[i].y]

\* minX, minY, width, height of handleCrop, for a selection it does not return on
CropBox(sel) ==
  IF IsArray(sel)
  THEN [minX |-> SeqMin(Xs(sel.pts)), minY |-> SeqMin(Ys(sel.pts)),
        width |-> RSub(SeqMax(Xs(sel.pts)), SeqMin(Xs(sel.pts))),
        height |-> RSub(SeqMax(Ys(sel.pts)), SeqMin(Ys(sel.pts)))]
  ELSE [minX |-> RMin(sel.x, RAdd(sel.x, sel.width)),
        minY |-> RMin(sel.y, RAdd(sel.y, sel.height)),
        width |-> RAbs(sel.width), height |-> RAbs(sel.height)]

\* variant: the draft is handed over as it was drawn
normalizedSelectionRaw(sel) == sel

\* variant: every selection is replaced by its bounding box
normalizedSelectionBoxed(sel) ==
  Rect(CropBox(sel).minX, CropBox(sel).minY, CropBox(sel).width, CropBox(sel).height)

normalizedSelection(sel) ==
  IF IsArray(sel) THEN sel
  ELSE Rect(CropBox(sel).minX, CropBox(sel).minY, CropBox(sel).width, CropBox(sel).height)

\* variant: the test of the bounding box (width <= 0 || height <= 0) is missing
CropReturnsEarlyNoBox ==
  \/ image = "none"
  \/ selection = None
  \/ IsArray(selection) /\ Len(selection.pts) < 3

\* the early returns of the editor's handleCrop
CropReturnsEarly ==
  \/ image = "none"
  \/ selection = None
  \/ IsArray(selection) /\ Len(selection.pts) < 3
  \/ RLe(CropBox(selection).width, R(0))
  \/ RLe(CropBox(selection).height, R(0))

\* the crop canvas after clip and drawImage: its size (canvas.width = width keeps
\* the integer part), the image painted and the clip path
CropRaster(sel) ==
  LET b == CropBox(sel) IN
  [width |-> Trunc(b.width), height |-> Trunc(b.height), from |-> image,
   clip |-> IF IsArray(sel)
            THEN [i \in 1..Len(sel.pts) |->
                    [x |-> RSub(sel.pts[i].x, b.minX), y |-> RSub(sel.pts[i].y, b.minY)]]
            ELSE <<>>]

\* App.handleCrop up to its await: the values the suspended call has captured
onCrop(imageDataUrl, cropSelection) ==
  IF imageFile = "none" THEN thumbs
  ELSE Append(thumbs, [imageDataUrl |-> imageDataUrl, cropSelection |-> cropSelection,
                       imageFile |-> imageFile, cropCounter |-> cropCounter,
                       selectionMode |-> selectionMode])

\* the editor's handleCrop
handleCrop ==
  IF CropReturnsEarly
  THEN UNCHANGED <<selection, thumbs>>
  ELSE /\ cropCounter + Len(thumbs) <= MaxCrops
       /\ thumbs' = onCrop(CropRaster(selection), normalizedSelection(selection))
       /\ selection' = None

\* a data URL decodes (img.onload fires) only if the canvas had pixels
Decodable(imageDataUrl) == imageDataUrl.width > 0 /\ imageDataUrl.height > 0

\* id: new Date().toISOString() + Math.random(), a value no crop in the list has
FreshId == CHOOSE n \in 1..(Len(crops) + 1) : \A i \in 1..Len(crops) : crops[i].id # n

RemoveAt(s, i) == SubSeq(s, 1, i - 1) \o SubSeq(s, i + 1, Len(s))

\* createThumbnail resolves and App.handleCrop runs to its end
ThumbnailDone(i) ==
  /\ i \in 1..Len(thumbs)
  /\ Decodable(thumbs[i].imageDataUrl)
  /\ LET t == thumbs[i]
         newCrop == [id |-> FreshId, imageDataUrl |-> t.imageDataUrl,
                     metadata |-> [originalFileName |-> BaseName(t.imageFile),
                                   cropNumber |-> t.cropCounter,
                                   mode |-> t.selectionMode,
                                   selection |-> t.cropSelection]]
     IN  crops' = <<newCrop>> \o crops
  /\ cropCounter' = cropCounter + 1
  /\ thumbs' = RemoveAt(thumbs, i)
  /\ UNCHANGED <<imageFile, imageSrc, selectionMode, selection, reads, decodes, image>>
  /\ UNCHANGED viewVars

\* handleRemoveCrop
RemoveCrop(cropId) ==
  /\ \E i \in 1..Len(crops) : crops[i].id = cropId
  /\ crops' = SelectSeq(crops, LAMBDA c : c.id # cropId)
  /\ UNCHANGED <<imageFile, imageSrc, selectionMode, selection, cropCounter, reads,
                 thumbs, decodes, image>>
  /\ UNCHANGED viewVars

\* -------------------------------------------------------- pointer handlers
\* dist = sqrt((pos.x - firstPoint.x)^2 + (pos.y - firstPoint.y)^2) < 10 / zoom
NearFirstPoint(pos) ==
  LET firstPoint == selection.pts[1]
  IN  HypotLt(RSub(pos.x, firstPoint.x), RSub(pos.y, firstPoint.y), RDiv(R(10), zoom))

\* variant: a new vertex is put in front of the list
polygonDownPrepends(pos) ==
  IF ~IsArray(selection)
  THEN /\ selection' = Poly(<<pos>>)
       /\ UNCHANGED thumbs
  ELSE IF Len(selection.pts) > 2 /\ NearFirstPoint(pos)
  THEN handleCrop
  ELSE /\ Len(selection.pts) < MaxVertices
       /\ selection' = Poly(<<pos>> \o selection.pts)
       /\ UNCHANGED thumbs

\* variant: the closing branch does not return, so the click is appended as well
polygonDownAppends(pos) ==
  IF ~IsArray(selection)
  THEN /\ selection' = Poly(<<pos>>)
       /\ UNCHANGED thumbs
  ELSE /\ Len(selection.pts) < MaxVertices + 1
       /\ selection' = Poly(Append(selection.pts, pos))
       /\ IF Len(selection.pts) > 2 /\ NearFirstPoint(pos) /\ ~CropReturnsEarly
          THEN thumbs' = onCrop(CropRaster(selection), normalizedSelection(selection))
          ELSE UNCHANGED thumbs

\* handleMouseDown in polygon mode
polygonDown(pos) ==
  IF ~IsArray(selection)
  THEN /\ selection' = Poly(<<pos>>)
       /\ UNCHANGED thumbs
  ELSE IF Len(selection.pts) > 2 /\ NearFirstPoint(pos)
  THEN handleCrop
  ELSE /\ Len(selection.pts) < MaxVertices
       /\ selection' = Poly(Append(selection.pts, pos))
       /\ UNCHANGED thumbs

handleMouseDown(p, button, ctrlKey) ==
  /\ imageSrc # "none"
  /\ IF image = "none"
     THEN UNCHANGED <<selection, thumbs, isPanning, startPanPoint>>
     ELSE IF button = 1 \/ ctrlKey
     THEN /\ isPanning' = TRUE
          /\ startPanPoint' = [x |-> RSub(R(p.x), pan.x), y |-> RSub(R(p.y), pan.y)]
          /\ UNCHANGED <<selection, thumbs>>
     ELSE /\ UNCHANGED <<isPanning, startPanPoint>>
          /\ IF selectionMode = "rectangle"
             THEN /\ selection' = Rect(getMousePos(p).x, getMousePos(p).y, R(0), R(0))
                  /\ UNCHANGED thumbs
             ELSE polygonDown(getMousePos(p))
  /\ UNCHANGED <<imageFile, imageSrc, crops, selectionMode, cropCounter, reads>>
  /\ UNCHANGED <<decodes, image, zoom, pan, viewOps>>

handleMouseMove(p, buttons) ==
  /\ imageSrc # "none"
  /\ IF isPanning
     THEN /\ viewOps.moves < MaxPanMoves
          /\ pan' = [x |-> RSub(R(p.x), startPanPoint.x),
                     y |-> RSub(R(p.y), startPanPoint.y)]
          /\ viewOps' = [viewOps EXCEPT !.moves = @ + 1]
          /\ UNCHANGED selection
     ELSE /\ UNCHANGED <<pan, viewOps>>
          /\ IF selection = None \/ IsArray(selection) \/ buttons # 1
             THEN UNCHANGED selection
             ELSE IF selectionMode = "rectangle"
             THEN LET pos == getMousePos(p) IN
                  selection' = [selection EXCEPT !.width = RSub(pos.x, selection.x),
                                                 !.height = RSub(pos.y, selection.y)]
             ELSE UNCHANGED selection
  /\ UNCHANGED <<imageFile, imageSrc, crops, selectionMode, cropCounter, reads, thumbs>>
  /\ UNCHANGED <<decodes, image, zoom, isPanning, startPanPoint>>

\* onMouseUp and onMouseLeave
handleMouseUp ==
  /\ imageSrc # "none"
  /\ isPanning' = FALSE
  /\ UNCHANGED <<decodes, image, zoom, pan, startPanPoint, viewOps>>
  /\ UNCHANGED appVars

\* ------------------------------------------------------ toolbar and keys
isCropDisabled ==
  \/ selection = None
  \/ selectionMode = "rectangle" /\ ~IsArray(selection)
       /\ (selection.width = R(0) \/ selection.height = R(0))
  \/ selectionMode = "polygon" /\ (~IsArray(selection) \/ Len(selection.pts) < 3)

editorOnly == <<imageFile, imageSrc, crops, selectionMode, cropCounter, reads, decodes, image>>

\* variant: the crop is followed by a fit of the view
CropCommandRefits ==
  /\ imageSrc # "none"
  /\ ~isCropDisabled
  /\ handleCrop
  /\ zoom' = FitZoom(image)
  /\ pan' = FitPan(image)
  /\ UNCHANGED editorOnly
  /\ UNCHANGED <<isPanning, startPanPoint, viewOps>>

\* the Crop button: editorRef.current.crop()
CropCommand ==
  /\ imageSrc # "none"
  /\ ~isCropDisabled
  /\ UNCHANGED editorOnly
  /\ UNCHANGED viewVars
  /\ handleCrop

\* handleKeyDown
KeyEnter ==
  /\ imageSrc # "none"
  /\ UNCHANGED editorOnly
  /\ UNCHANGED viewVars
  /\ handleCrop

KeyEscape ==
  /\ imageSrc # "none"
  /\ selection' = None
  /\ UNCHANGED thumbs
  /\ UNCHANGED editorOnly
  /\ UNCHANGED viewVars

\* the Undo button is disabled unless a polygon with a vertex is drafted
undoLastPoint ==
  /\ imageSrc # "none"
  /\ selectionMode = "polygon"
  /\ IsArray(selection) /\ Len(selection.pts) > 0
  /\ selection' = Poly(SubSeq(selection.pts, 1, Len(selection.pts) - 1))
  /\ UNCHANGED thumbs
  /\ UNCHANGED editorOnly
  /\ UNCHANGED viewVars

\* the Clear button is disabled without a selection
clearSelection ==
  /\ imageSrc # "none"
  /\ selection # None
  /\ selection' = None
  /\ UNCHANGED thumbs
  /\ UNCHANGED editorOnly
  /\ UNCHANGED viewVars

\* variant: the mode changes and the draft stays
handleChangeSelectionModeKeeps(mode) ==
  /\ imageSrc # "none"
  /\ selectionMode' = mode
  /\ UNCHANGED selection
  /\ UNCHANGED <<imageFile, imageSrc, crops, cropCounter, reads, thumbs, decodes, image>>
  /\ UNCHANGED viewVars

handleChangeSelectionMode(mode) ==
  /\ imageSrc # "none"
  /\ selectionMode' = mode
  /\ selection' = None
  /\ UNCHANGED <<imageFile, imageSrc, crops, cropCounter, reads, thumbs, decodes, image>>
  /\ UNCHANGED viewVars

\* ------------------------------------------------------------ specifications
\* The event sources, with the inputs drawn from the sets given.
LoadEvents(files) ==
  \/ \E f \in files : Cardinality(reads \cup decodes) < MaxInFlight /\ ChooseFile(f)
  \/ \E f \in files : ReadDone(f)
  \/ \E f \in files : DecodeDone(f)

PointerEvents(points, buttons, ctrlKeys, held) ==
  \/ \E p \in points, b \in buttons, c \in ctrlKeys : handleMouseDown(p, b, c)
  \/ \E p \in points, b \in held : handleMouseMove(p, b)
  \/ handleMouseUp

ViewEvents ==
  \/ ZoomIn
  \/ ZoomOut
  \/ \E d \in {-1, 1} : Wheel(d)
  \/ ResetView

SelectionEvents ==
  \/ CropCommand
  \/ KeyEnter
  \/ KeyEscape
  \/ undoLastPoint
  \/ clearSelection
  \/ \E m \in {"rectangle", "polygon"} : handleChangeSelectionMode(m)

CropListEvents ==
  \/ \E i \in 1..MaxCrops + 1 : ThumbnailDone(i)
  \/ \E id \in 1..MaxCrops + 1 : RemoveCrop(id)

\* Sessions: files are chosen, read and decoded in any order while rectangles
\* are dragged between two points, cropped and removed; the view stays fitted.
SessionPoints == { [x |-> 0, y |-> 0], [x |-> 19, y |-> 19] }
SessionFiles == {"big.tar.png", "shot.png"}
Next ==
  \/ LoadEvents(SessionFiles)
  \/ PointerEvents(SessionPoints, {0}, {FALSE}, {1})
  \/ CropCommand
  \/ KeyEnter
  \/ KeyEscape
  \/ clearSelection
  \/ CropListEvents

Spec == Init /\ [][Next]_vars

\* the files whose fitted zoom lies near the two ends of the zoom range
ViewFiles == {"small.png", "big.tar.png"}

\* Drawing: one image is loaded, then selections are drawn with the primary
\* button between zoom commands, key and toolbar events until a crop has been handed to
\* the crop list.
NoCropYet == thumbs = <<>> /\ crops = <<>>
NextDraw ==
  \/ imageFile = "none" /\ LoadEvents(ViewFiles)
  \/ imageFile # "none" /\ (\E f \in ViewFiles : ReadDone(f) \/ DecodeDone(f))
  \/ NoCropYet /\ PointerEvents(ScreenPoints, {0}, {FALSE}, ButtonsHeld)
  \/ NoCropYet /\ (ZoomIn \/ ZoomOut \/ ResetView)
  \/ NoCropYet /\ SelectionEvents
  \/ CropListEvents

SpecDraw == Init /\ [][NextDraw]_vars

\* Viewing: files are loaded and replaced while the view is panned, zoomed and
\* reset; no selection is drawn.
NextView ==
  \/ LoadEvents(ViewFiles)
  \/ PointerEvents(ScreenPoints, {1}, {FALSE}, {4})
  \/ PointerEvents(ScreenPoints, {0}, {TRUE}, {1})
  \/ ViewEvents

SpecView == Init /\ [][NextView]_vars

\* Gestures: on one loaded image the primary and the middle button are pressed
\* and released in any order while the pointer moves, in both selection modes,
\* until a crop has been handed to the crop list.
GesturePoints == { [x |-> 0, y |-> 0], [x |-> 3, y |-> 4], [x |-> 19, y |-> 19] }
GestureFiles == {"shot.png"}
NextGesture ==
  \/ imageFile = "none" /\ LoadEvents(GestureFiles)
  \/ imageFile # "none" /\ (\E f \in GestureFiles : ReadDone(f) \/ DecodeDone(f))
  \/ NoCropYet /\ PointerEvents(GesturePoints, {0, 1}, {FALSE}, {1, 4})
  \/ NoCropYet /\ (\E m \in {"rectangle", "polygon"} : handleChangeSelectionMode(m))

SpecGesture == Init /\ [][NextGesture]_vars

\* ------------------------------------------------------------------ claims
\* C1: whenever an image is loaded, the zoom lies in [0.1, 10].
ZoomInRange ==
  image # "none" => RLe(<<1, 10>>, zoom) /\ RLe(zoom, R(10))

\* C2: no two crops in the crop list carry the same cropNumber.
CropNumbersDistinct ==
  \A i, j \in 1..Len(crops) :
    i # j => crops[i].metadata.cropNumber # crops[j].metadata.cropNumber

\* the thumbnail image of a pending crop loads as soon as it can
FairDraw == SpecDraw /\ WF_vars(\E i \in 1..MaxCrops + 1 : ThumbnailDone(i))

\* C3: every crop command that has cleared the selection, leaving a call of
\* App.handleCrop pending, is eventually followed by a Crop record in the list.
CropLeadsToRecord == (Len(thumbs) > 0) ~> (Len(crops) > 0)

\* the selection is not croppable, in the words of the crop precondition
NotCroppable ==
  \/ selection = None
  \/ ~IsArray(selection) /\ (selection.width = R(0) \/ selection.height = R(0))
  \/ IsArray(selection) /\ Len(selection.pts) < 3
  \/ RLe(CropBox(selection).width, R(0))
  \/ RLe(CropBox(selection).height, R(0))

\* a pointer-down at p that lands within 10 / zoom of the first of more than 2 vertices
ClosingClick(p) ==
  /\ image # "none"
  /\ selectionMode = "polygon"
  /\ IsArray(selection)
  /\ Len(selection.pts) > 2
  /\ LET pos == getMousePos(p)
     IN  HypotLt(RSub(pos.x, selection.pts[1].x), RSub(pos.y, selection.pts[1].y),
                 RDiv(R(10), zoom))
  /\ handleMouseDown(p, 0, FALSE)

CropInvoked ==
  \/ CropCommand
  \/ KeyEnter
  \/ \E p \in ScreenPoints : ClosingClick(p)

\* C4: a crop command, Enter key or closing click on a selection that is not
\* croppable changes nothing: selection, mode, viewport, crop list, crop counter
\* and the calls pending at the crop sink stay as they are.
UncroppableCropIsNoOp ==
  [][(NotCroppable /\ CropInvoked) =>
       UNCHANGED <<selection, selectionMode, zoom, pan, crops, cropCounter, thumbs>>]_vars

\* C4 witness: a polygon of 3 vertices whose bounding box is flat is drafted on a
\* loaded image, where Enter, the Crop button and a closing click all reach handleCrop
FlatPolygonDrafted ==
  /\ image # "none"
  /\ IsArray(selection) /\ Len(selection.pts) >= 3
  /\ NotCroppable
  /\ ~isCropDisabled

LastThumb == thumbs[Len(thumbs)]

\* C5: a crop of a drafted rectangle with nonzero width and height emits
\* {x: min(x, x + width), y: min(y, y + height), width: |width|, height: |height|}:
\* non-negative extents, the same absolute area, the true top-left corner.
RectangleCropNormalized ==
  [][(/\ image # "none"
      /\ selection.kind = "rect"
      /\ selection.width # R(0) /\ selection.height # R(0)
      /\ CropInvoked)
     => /\ Len(thumbs') = Len(thumbs) + 1
        /\ LET d == selection
               m == thumbs'[Len(thumbs')].cropSelection
           IN  /\ m.kind = "rect"
               /\ m.x = (IF d.width[1] < 0 THEN RAdd(d.x, d.width) ELSE d.x)
               /\ m.y = (IF d.height[1] < 0 THEN RAdd(d.y, d.height) ELSE d.y)
               /\ m.width = (IF d.width[1] < 0 THEN RNeg(d.width) ELSE d.width)
               /\ m.height = (IF d.height[1] < 0 THEN RNeg(d.height) ELSE d.height)
               /\ m.width[1] >= 0 /\ m.height[1] >= 0
               /\ RMul(m.width, m.height) = RAbs(RMul(d.width, d.height))]_vars

\* C5 witness: a rectangle crop has been emitted
RectangleCropEmitted ==
  /\ Len(thumbs) > 0
  /\ LastThumb.selectionMode = "rectangle"
  /\ LastThumb.cropSelection.kind = "rect"
  /\ selection = None

\* C6: a closing click changes neither the selection nor the crops handed over
\* (the extractor found nothing to crop), or it clears the selection and hands
\* over exactly the vertices drafted before the click; the click point is never
\* appended.
ClosingClickKeepsVertices ==
  [][\/ UNCHANGED <<selection, thumbs>>
     \/ \A p \in ScreenPoints : ClosingClick(p) =>
          /\ selection' = None
          /\ Len(thumbs') = Len(thumbs) + 1
          /\ thumbs'[Len(thumbs')].cropSelection = selection]_vars

\* C6 witness: a polygon crop of exactly 3 vertices has been emitted
PolygonCropEmitted ==
  /\ Len(thumbs) > 0
  /\ LastThumb.selectionMode = "polygon"
  /\ IsArray(LastThumb.cropSelection)
  /\ Len(LastThumb.cropSelection.pts) = 3
  /\ selection = None

\* C7: the raster of every crop handed to the crop list is as wide and as high
\* as the bounding box of its selection.
RasterMatchesBox ==
  \A i \in 1..Len(thumbs) :
    /\ R(thumbs[i].imageDataUrl.width) = CropBox(thumbs[i].cropSelection).width
    /\ R(thumbs[i].imageDataUrl.height) = CropBox(thumbs[i].cropSelection).height

\* C8: the selection emitted for a polygon crop, and stored in its Crop record,
\* is the drafted vertex list itself.
PolygonMetadataUnmodified ==
  [][/\ (IsArray(selection) /\ Len(thumbs') = Len(thumbs) + 1)
          => thumbs'[Len(thumbs')].cropSelection = selection
     /\ \A i \in 1..Len(thumbs) :
          (ThumbnailDone(i) /\ IsArray(thumbs[i].cropSelection))
          => crops'[1].metadata.selection = thumbs[i].cropSelection]_vars

\* C8 witness: a polygon Crop record whose vertices do not start at the box origin
PolygonRecordInImageSpace ==
  \E i \in 1..Len(crops) :
    /\ crops[i].metadata.mode = "polygon"
    /\ IsArray(crops[i].metadata.selection)
    /\ CropBox(crops[i].metadata.selection).minX # R(0)
    /\ crops[i].imageDataUrl.clip # crops[i].metadata.selection.pts

\* C9: no state holds a polygon selection without vertices.
NoEmptyPolygon == ~(IsArray(selection) /\ Len(selection.pts) = 0)

\* C10: while the image last set as source is still decoding, no pointer or key
\* event changes the selection or emits a crop.
DecodePending == imageSrc # "none" /\ imageSrc \in decodes
NoInputWhileDecoding ==
  [][(DecodePending /\ (PointerEvents(SessionPoints, {0}, {FALSE}, {1}) \/ KeyEnter \/ KeyEscape))
       => UNCHANGED <<selection, thumbs>>]_vars

\* the scale amounts of zoomIn, zoomOut and the two wheel directions
ZoomFactors == {<<6, 5>>, <<5, 6>>, <<11, 10>>, <<10, 11>>}
Clamp(z) == IF RLt(z, <<1, 10>>) THEN <<1, 10>> ELSE IF RLt(R(10), z) THEN R(10) ELSE z

\* C11: after every zoomIn, zoomOut or wheel call, from whatever zoom, the zoom
\* is clamp(old zoom * factor, 0.1, 10) and so lies in [0.1, 10].
ZoomCallClamps ==
  [][\A s \in ZoomFactors :
       adjustZoom(s) => /\ zoom' = Clamp(RMul(zoom, s))
                        /\ RLe(<<1, 10>>, zoom') /\ RLe(zoom', R(10))]_vars

\* C11 witness: a zoom call on a fitted zoom outside [0.1, 10] has ended on a limit
ZoomEndedOnLimit ==
  /\ image # "none"
  /\ viewOps.zooms > 0
  /\ ~(RLe(<<1, 10>>, FitZoom(image)) /\ RLe(FitZoom(image), R(10)))
  /\ zoom \in {<<1, 10>>, R(10)}

\* C12: a mode switch, the Clear button and the Escape key each leave the
\* selection empty, whatever it was (a polygon's vertices are discarded by a
\* switch to rectangle mode), and change neither zoom, pan, the crop list nor
\* the crop counter.
SelectionResets ==
  \/ \E mode \in {"rectangle", "polygon"} : handleChangeSelectionMode(mode)
  \/ clearSelection
  \/ KeyEscape
ResetsLeaveEmpty ==
  [][SelectionResets =>
       /\ selection' = None
       /\ UNCHANGED <<zoom, pan, crops, cropCounter>>]_vars

\* C12 witness: polygon mode is active, which only a mode switch brings about,
\* on a zoomed view with nothing selected
SwitchedOnZoomedView ==
  /\ image # "none"
  /\ viewOps.zooms > 0
  /\ zoom # FitZoom(image)
  /\ selectionMode = "polygon"
  /\ selection = None

\* a pointer event of the gestures: a button goes down, the pointer moves, a
\* button goes up or the pointer leaves the canvas
GestureStep == PointerEvents(GesturePoints, {0, 1}, {FALSE}, {1, 4})

\* C13: within a pan gesture no pointer event changes the selection or hands a
\* crop over.  isPanning is set by the pointer-down that starts the pan and
\* cleared by the first pointer-up after it, so while it is set the button
\* that started the pan has not been released.
PanGestureKeepsSelection ==
  [][(isPanning /\ GestureStep) => UNCHANGED <<selection, thumbs>>]_vars

\* the image-space point shown at the centre of the container
CenterPoint(z, pn) ==
  [x |-> RDiv(RSub(RDiv(R(ContainerWidth), R(2)), pn.x), z),
   y |-> RDiv(RSub(RDiv(R(ContainerHeight), R(2)), pn.y), z)]

\* C14: every zoomIn, zoomOut or wheel call, clamped or not, leaves the
\* image-space point under the container centre where it was.
ZoomKeepsCenterPoint ==
  [][\/ UNCHANGED <<zoom, pan>>
     \/ \A s \in ZoomFactors :
          adjustZoom(s) => CenterPoint(zoom', pan') = CenterPoint(zoom, pan)]_vars

\* C14 witness: a zoom call was clamped at 10 on a panned view: the centre does
\* not show the image's centre, and pan.x is no multiple of 1/2 as it is after
\* every fit and every pointer-move
ClampedZoomOffCenter ==
  /\ image # "none"
  /\ zoom = R(10)
  /\ pan.x[2] \notin {1, 2}
  /\ CenterPoint(zoom, pan) # CenterPoint(FitZoom(image), FitPan(image))

\* image-space points: corners of the image, a point inside a pixel, a point off the image
ImagePoints ==
  { [x |-> R(0), y |-> R(0)], [x |-> R(400), y |-> R(300)],
    [x |-> <<3, 2>>, y |-> <<7, 4>>], [x |-> R(-5), y |-> R(2)] }

\* getMousePos for a pointer at the screen position s
toImageSpace(s) ==
  [x |-> RDiv(RSub(s.x, pan.x), zoom), y |-> RDiv(RSub(s.y, pan.y), zoom)]

\* C15: in every state the zoom is not 0, and an image-space point drawn on
\* the screen and read back as a pointer position is the same point; the
\* pointer positions of the events are read back by the same map.
TransformRoundTrip ==
  /\ zoom # R(0)
  /\ \A q \in ImagePoints : toImageSpace(toScreenSpace(q)) = q
  /\ \A p \in ScreenPoints :
       /\ getMousePos(p) = toImageSpace([x |-> R(p.x), y |-> R(p.y)])
       /\ toScreenSpace(getMousePos(p)) = [x |-> R(p.x), y |-> R(p.y)]

\* C15 witness: a view that was panned and zoomed away from the fit of a
\* 400 x 300 image, whose zoom stays below 1/10 until a zoom call
PannedAndZoomed ==
  /\ image = "big.tar.png"
  /\ viewOps.zooms > 0 /\ viewOps.moves > 0
  /\ zoom = <<1, 10>>
  /\ pan # FitPan(image)
  /\ ~isPanning

\* C16: a crop extraction, successful or not, leaves zoom and pan as they
\* were; it changes nothing at all, or it hands one crop over and empties the
\* selection, and nothing else.
CropKeepsViewport ==
  [][\/ /\ UNCHANGED <<zoom, pan>>
        /\ UNCHANGED <<imageFile, imageSrc, crops, selectionMode, cropCounter, image,
                       isPanning, startPanPoint>>
        /\ \/ UNCHANGED <<selection, thumbs>>
           \/ /\ selection' = None
              /\ Len(thumbs') = Len(thumbs) + 1
              /\ SubSeq(thumbs', 1, Len(thumbs)) = thumbs
     \/ ~CropInvoked]_vars

\* C16 witness: a crop was handed over on a view that a zoom call had changed
CropOnZoomedView ==
  /\ Len(thumbs) > 0
  /\ selection = None
  /\ viewOps.zooms > 0
  /\ zoom # FitZoom(image)
  /\ pan # FitPan(image)

\* the image-space point under the pointer at the screen position p
PointerAt(p) == toImageSpace([x |-> R(p.x), y |-> R(p.y)])

\* C17: in rectangle mode on a loaded image, a pointer-down of the primary
\* button at the image-space point a makes the selection {a.x, a.y, 0, 0},
\* whatever was drafted; a pointer-move with the primary button alone, outside
\* a pan, at the point c sets width = c.x - x and height = c.y - y and keeps
\* x and y; a pointer-up or a move without the primary button keeps the rectangle.
RectangleFollowsDrag ==
  [][/\ \A p \in GesturePoints :
          (image # "none" /\ selectionMode = "rectangle" /\ handleMouseDown(p, 0, FALSE))
          => selection' = Rect(PointerAt(p).x, PointerAt(p).y, R(0), R(0))
     /\ \A p \in GesturePoints :
          (selectionMode = "rectangle" /\ selection.kind = "rect" /\ ~isPanning
             /\ handleMouseMove(p, 1))
          => selection' = Rect(selection.x, selection.y,
                               RSub(PointerAt(p).x, selection.x),
                               RSub(PointerAt(p).y, selection.y))
     /\ (selection.kind = "rect"
           /\ (handleMouseUp \/ \E p \in GesturePoints : handleMouseMove(p, 4)))
          => UNCHANGED selection]_vars

\* C17 witness: a rectangle dragged up and to the left on a panned view, its
\* width and height negative
RectangleDraggedBack ==
  /\ selectionMode = "rectangle"
  /\ selection.kind = "rect"
  /\ selection.width[1] < 0 /\ selection.height[1] < 0
  /\ viewOps.moves > 0
  /\ ~isPanning

PanMoveAddsDisplacement ==
  [][\A p \in ScreenPoints :
       (isPanning /\ (handleMouseMove(p, 4) \/ handleMouseMove(p, 1)))
       => /\ zoom' = zoom
          /\ \E q \in ScreenPoints :
               /\ pan'.x = RAdd(pan.x, R(p.x - q.x))
               /\ pan'.y = RAdd(pan.y, R(p.y - q.y))]_vars

\* the variant of a selection value that a mode goes with
VariantOf(mode) == IF mode = "rectangle" THEN "rect" ELSE "poly"

\* C20: in every state the selection is empty or of the variant of the active
\* mode, and the mode in the metadata of every crop, handed over or listed,
\* goes with the variant of the crop's selection.
SelectionAgreesWithMode ==
  /\ selection = None \/ selection.kind = VariantOf(selectionMode)
  /\ \A i \in 1..Len(thumbs) :
       thumbs[i].cropSelection.kind = VariantOf(thumbs[i].selectionMode)
  /\ \A i \in 1..Len(crops) :
       crops[i].metadata.selection.kind = VariantOf(crops[i].metadata.mode)

\* C20 witness: the crop list holds a polygon crop, made after the mode was
\* switched from rectangle to polygon
PolygonCropListed ==
  /\ selectionMode = "polygon"
  /\ Len(crops) > 0
  /\ crops[1].metadata.mode = "polygon"
  /\ crops[1].metadata.selection.kind = "poly"
  /\ thumbs = <<>>

\* C21: from every state, zoomIn and wheel-in never decrease the zoom, zoomOut
\* and wheel-out never increase it.
ZoomMonotone ==
  [][/\ (ZoomIn \/ Wheel(-1)) => RLe(zoom, zoom')
     /\ (ZoomOut \/ Wheel(1)) => RLe(zoom', zoom)]_vars

\* C22: the crop list holds only crops cut from the image of the file whose
\* load completed last; stated for the crops that carry the name of the image
\* they were cut from, the crops commanded before the next file was chosen.
CropsOfCurrentImage ==
  \A i \in 1..Len(crops) :
    crops[i].metadata.originalFileName = BaseName(crops[i].imageDataUrl.from)
    => crops[i].imageDataUrl.from = imageSrc

\* C23: the originalFileName of every Crop record is the base name of the file
\* whose image the crop was cut from.
CropNamedAfterSource ==
  \A i \in 1..Len(crops) :
    crops[i].metadata.originalFileName = BaseName(crops[i].imageDataUrl.from)

====
